---- MODULE Spec2Model ----
(***************************************************************************)
(* The NOAA helper library: the weather station catalog (GHCNUtilities),   *)
(* the solar station catalog (NSRBUtilities) and save_dataframe.           *)
(*                                                                         *)
(* Python strings are sequences of one-character strings.  A Python value  *)
(* of any type is a record [type, val] whose val is the character sequence *)
(* of the string, or the repr of a value of another type.                  *)
(***************************************************************************)
EXTENDS Integers, Sequences, FiniteSets, TLC

VARIABLES catalog, loaded, frames, held, last, pc, call, handles

vars == <<catalog, loaded, frames, held, last, pc, call, handles>>

---------------------------------------------------------------------------
(* Bounds of the model. *)

\* longest namePattern (station) argument tried
MaxPatLen == 2
\* how many characters past the two of a region code a state argument may run
MaxRegionExtra == 1
\* most rows in one observation file
MaxObsRows == 2
\* longest name given to save_dataframe
MaxSaveNameLen == 2

---------------------------------------------------------------------------
(* Characters and strings. *)

ascii_lowercase ==
    << "a","b","c","d","e","f","g","h","i","j","k","l","m",
       "n","o","p","q","r","s","t","u","v","w","x","y","z" >>

ascii_uppercase ==
    << "A","B","C","D","E","F","G","H","I","J","K","L","M",
       "N","O","P","Q","R","S","T","U","V","W","X","Y","Z" >>

ascii_letters == ascii_lowercase \o ascii_uppercase

digits == << "0","1","2","3","4","5","6","7","8","9" >>

Range(s) == { s[i] : i \in 1..Len(s) }

StringsUpTo(A, n) == UNION { [1..k -> A] : k \in 0..n }

\* str.upper(), one character
UpperChar(c) ==
    IF \E i \in 1..Len(ascii_lowercase) : ascii_lowercase[i] = c
    THEN ascii_uppercase[CHOOSE i \in 1..Len(ascii_lowercase) : ascii_lowercase[i] = c]
    ELSE c

\* str.upper()
Upper(s) == [i \in 1..Len(s) |-> UpperChar(s[i])]

\* pat == x[k .. k+len(pat)-1]
OccursAt(pat, x, k) ==
    /\ k + Len(pat) - 1 <= Len(x)
    /\ \A i \in 1..Len(pat) : x[k + i - 1] = pat[i]

\* Python's  pat in x
In(pat, x) == \E k \in 1..(Len(x) + 1) : OccursAt(pat, x, k)

Str(s) == [type |-> "str", val |-> s]

isinstance_str(v) == v.type = "str"

isinstance_bool(v) == v.type = "bool"

PyTrue == [type |-> "bool", val |-> <<"T","r","u","e">>]

PyFalse == [type |-> "bool", val |-> <<"F","a","l","s","e">>]

PyInt7 == [type |-> "int", val |-> <<"7">>]

PyNone == [type |-> "NoneType", val |-> <<"N","o","n","e">>]

---------------------------------------------------------------------------
(* pandas string methods and the regular expressions the catalogs use. *)

\* a slip: regex left on, so that a dot in the pattern stands for any character
str_contains_Regex(x, pat) ==
    \E k \in 1..(Len(x) + 1) :
        /\ k + Len(pat) - 1 <= Len(x)
        /\ \A i \in 1..Len(pat) : pat[i] = "." \/ UpperChar(x[k + i - 1]) = UpperChar(pat[i])

\* Series.str.contains(pat, case=False, regex=False), one cell
str_contains_literal_nocase(x, pat) == In(Upper(pat), Upper(x))

\* the character class [a-z|A-Z]: inside brackets the bar is a literal bar
StateCharClass == Range(ascii_letters) \cup {"|"}

\* re.match('[a-z|A-Z]{2}', state)
re_match_two_letters(state) ==
    /\ Len(state) >= 2
    /\ state[1] \in StateCharClass
    /\ state[2] \in StateCharClass

\* the alternatives of a pattern made of literals and bars:  'A|' is 'A' or ''
RECURSIVE Alternatives(_)
Alternatives(pat) ==
    IF \A i \in 1..Len(pat) : pat[i] # "|"
    THEN {pat}
    ELSE LET k == CHOOSE i \in 1..Len(pat) :
                      pat[i] = "|" /\ \A j \in 1..(i - 1) : pat[j] # "|"
         IN  {SubSeq(pat, 1, k - 1)} \cup Alternatives(SubSeq(pat, k + 1, Len(pat)))

\* Series.str.match(pat, case=False), one cell: re.match anchors at the start only
str_match_nocase(x, pat) ==
    \E alt \in Alternatives(pat) : OccursAt(Upper(alt), Upper(x), 1)

---------------------------------------------------------------------------
(* Station tables.  A table (DataFrame) is the sequence of its rows. *)

\* len(state) != 2
RegionLen == 2

\* rows a ghcnd-stations.txt may hold: State is the two-column field [38,40]
WeatherStationRows ==
    << [WeatherStnId |-> <<"W","1">>, State |-> <<"T","T">>, StationName |-> <<"a","A">>],
       [WeatherStnId |-> <<"W","2">>, State |-> <<"t","t">>, StationName |-> <<".","a">>],
       [WeatherStnId |-> <<"W","3">>, State |-> <<"T">>,     StationName |-> <<"A">>],
       [WeatherStnId |-> <<"W","4">>, State |-> <<"K","Y">>, StationName |-> <<>>] >>

\* rows an NSRDB_StationsMeta.csv may hold
SolarStationRows ==
    << [SolarStnId |-> <<"S","1">>, SolarFlag |-> TRUE,  StationName |-> <<"a","A">>, State |-> <<"T","T">>],
       [SolarStnId |-> <<"S","2">>, SolarFlag |-> FALSE, StationName |-> <<".","a">>, State |-> <<"t","t">>],
       [SolarStnId |-> <<"S","3">>, SolarFlag |-> TRUE,  StationName |-> <<"A">>,     State |-> <<"K","Y">>],
       [SolarStnId |-> <<"S","4">>, SolarFlag |-> FALSE, StationName |-> <<>>,        State |-> <<"K","Y">>] >>

\* the rows of a table whose position is in S, in the table's order
RECURSIVE RowsAt(_, _)
RowsAt(tbl, S) ==
    IF tbl = <<>> THEN <<>>
    ELSE LET rest == RowsAt(Tail(tbl), { i - 1 : i \in S \ {1} })
         IN  IF 1 \in S THEN <<Head(tbl)>> \o rest ELSE rest

\* every station file made of some of the rows
StationFiles(rows) == { RowsAt(rows, S) : S \in SUBSET (1..Len(rows)) }

\* DataFrame[mask]: a new table of the rows the boolean mask selects
BooleanIndex(tbl, mask) == RowsAt(tbl, { i \in 1..Len(tbl) : mask[i] })

\* a DataFrame object: the heap cell that holds it and its rows
Frame(ref, rows) == [ref |-> ref, val |-> rows]

\* an aliasing slip: hands back the very object it was given
DataFrame_copy_Alias(df) == df

\* DataFrame.copy(): a new object with the same rows
DataFrame_copy(df) == Frame("returned", df.val)

\* the check both find_stations make of their state argument
state_is_invalid(state) ==
    \/ ~isinstance_str(state)
    \/ /\ Len(state.val) > 0
       /\ \/ Len(state.val) # RegionLen
          \/ ~re_match_two_letters(state.val)

Raised(what) == [raised |-> what, df |-> Frame("none", <<>>)]

Returned(df) == [raised |-> "", df |-> df]

\* GHCNUtilities.find_stations
GHCN_find_stations(dfStations, station, state) ==
    LET dfw == Frame("dfStations", dfStations)
        byName  == [i \in 1..Len(dfw.val) |->
                        str_contains_literal_nocase(dfw.val[i].StationName, station.val)]
        byState == [i \in 1..Len(dfw.val) |->
                        str_match_nocase(dfw.val[i].State, state.val)]
        both    == [i \in 1..Len(dfw.val) |-> byName[i] /\ byState[i]]
    IN  IF state_is_invalid(state)
        THEN Raised("ValueError: state must be a string two letters")
        ELSE IF ~isinstance_str(station)
        THEN Raised("ValueError: station must be a string")
        ELSE IF Len(state.val) > 0 /\ Len(station.val) > 0
        THEN Returned(DataFrame_copy(Frame("indexed", BooleanIndex(dfw.val, both))))
        ELSE IF Len(station.val) > 0
        THEN Returned(DataFrame_copy(Frame("indexed", BooleanIndex(dfw.val, byName))))
        ELSE IF Len(state.val) > 0
        THEN Returned(DataFrame_copy(Frame("indexed", BooleanIndex(dfw.val, byState))))
        ELSE Returned(DataFrame_copy(dfw))

\* NSRBUtilities.find_stations
NSRB_find_stations(dfStations, station, state, solar) ==
    LET dfs  == Frame("dfStations", dfStations)
        n    == Len(dfs.val)
        idx0 == [i \in 1..n |-> TRUE]
        idx1 == IF Len(state.val) > 0
                THEN [i \in 1..n |-> idx0[i] /\ str_match_nocase(dfs.val[i].State, state.val)]
                ELSE idx0
        idx2 == IF Len(station.val) > 0
                THEN [i \in 1..n |-> idx1[i] /\
                          str_contains_literal_nocase(dfs.val[i].StationName, station.val)]
                ELSE idx1
        \* idx & dfs['SolarFlag'] == solar  groups as  (idx & dfs['SolarFlag']) == solar
        idx3 == IF isinstance_bool(solar)
                THEN [i \in 1..n |-> (idx2[i] /\ dfs.val[i].SolarFlag) = (solar = PyTrue)]
                ELSE idx2
    IN  IF state_is_invalid(state)
        THEN Raised("ValueError: state must be a string two letters")
        ELSE IF ~isinstance_str(station)
        THEN Raised("ValueError: station must be a string")
        ELSE Returned(DataFrame_copy(Frame("indexed", BooleanIndex(dfs.val, idx3))))

\* DataFrame.loc[key] on a table indexed by idcol
loc(tbl, idcol, key) ==
    IF key.type = "slice"
    THEN [raised |-> "", kind |-> "DataFrame", rows |-> tbl]
    ELSE IF key.type = "str" /\ \E i \in 1..Len(tbl) : tbl[i][idcol] = key.val
    THEN [raised |-> "", kind |-> "Series",
          rows |-> << tbl[CHOOSE i \in 1..Len(tbl) : tbl[i][idcol] = key.val] >>]
    ELSE [raised |-> "KeyError", kind |-> "none", rows |-> <<>>]

\* get_station_info of both catalogs: try .loc, on any exception pd.Series()
get_station_info(dfStations, idcol, stationid) ==
    LET sr == loc(dfStations, idcol, stationid)
    IN  IF sr.raised = ""
        THEN [kind |-> sr.kind, rows |-> sr.rows]
        ELSE [kind |-> "Series", rows |-> <<>>]

---------------------------------------------------------------------------
(* Numbers, dates and paths. *)

DigitValue(c) == (CHOOSE i \in 1..Len(digits) : digits[i] = c) - 1

\* int(s) of a string of decimal digits
RECURSIVE ParseInt(_)
ParseInt(s) ==
    IF s = <<>> THEN 0
    ELSE ParseInt(SubSeq(s, 1, Len(s) - 1)) * Len(digits) + DigitValue(s[Len(s)])

\* '{}'.format(n) of an int n >= 0
RECURSIVE FormatInt(_)
FormatInt(n) ==
    IF n < Len(digits) THEN << digits[n + 1] >>
    ELSE FormatInt(n \div Len(digits)) \o << digits[(n % Len(digits)) + 1] >>

\* pd.to_datetime of one cell: 'YYYYMMDD' (weather) or 'YYYY-MM-DD' (solar)
to_datetime(s) ==
    IF \A i \in 1..Len(s) : s[i] # "-"
    THEN [year  |-> ParseInt(SubSeq(s, 1, 4)),
          month |-> ParseInt(SubSeq(s, 5, 6)),
          day   |-> ParseInt(SubSeq(s, 7, 8))]
    ELSE [year  |-> ParseInt(SubSeq(s, 1, 4)),
          month |-> ParseInt(SubSeq(s, 6, 7)),
          day   |-> ParseInt(SubSeq(s, 9, 10))]

\* os.path.join(WeatherDir, 'by_year', '{}.csv.gz'.format(year))
weather_filepath(year) == <<"WeatherDir/", "by_year/">> \o FormatInt(year) \o <<".csv.gz">>

\* os.path.join(self.SolarDir, stationid + ".tar.gz")
solar_tarfilepath(stationid) == <<"SolarDir/">> \o stationid.val \o <<".tar.gz">>

\* 'nsrdb_solar/{}/{}_{}.csv'.format(stationid, stationid, year)
solar_datfilepath(stationid, year) ==
    <<"nsrdb_solar/">> \o stationid.val \o <<"/">> \o stationid.val \o <<"_">>
        \o FormatInt(year) \o <<".csv">>

---------------------------------------------------------------------------
(* Weather observations. *)

lstTenths ==
    { "PRCP","TMAX","TMIN","AWND","EVAP","MDEV","MDPR","MDTN","MDTX","MNPN","MXPN",
      "SN*#","SX*#","TAVG","THIC","TOBS","WESD","WESF","WSF1","WSF2","WSF5","WSFG",
      "WSFI","WSFM" }

\* a number as numerator over denominator
Ratio(num, den) == [num |-> num, den |-> den]

\* a slip: every element is scaled
scale_value_All(element, value) == Ratio(value, 10)

\* df.loc[df['Element'].isin(lstTenths), ['Value']] /= 10.0, one row
scale_value(element, value) ==
    IF element \in lstTenths THEN Ratio(value, 10) ELSE Ratio(value, 1)

\* records a by_year file may hold (Date as written in the file)
WeatherFileRows ==
    { [WeatherStnId |-> <<"W","1">>, Date |-> d, Element |-> e, Value |-> v, MFlag |-> m] :
        d \in { <<"2","0","0","0","0","2","2","9">>, <<"1","9","9","9","1","2","3","1">> },
        e \in { "TMAX", "PRCP", "WT01", "SN32" },
        v \in { 256, 7 },
        m \in { "" } }

\* the files of at most n rows
ObsFiles(rows, n) == UNION { [1..k -> rows] : k \in 0..n }

\* what read_weather_byyear makes of one record of the file
weather_row(r, year) ==
    LET date == to_datetime(r.Date)
    IN  [WeatherStnId |-> r.WeatherStnId, Date |-> date, Element |-> r.Element,
         Value |-> scale_value(r.Element, r.Value), MFlag |-> r.MFlag,
         Year |-> year, Month |-> date.month, Day |-> date.day]

\* GHCNUtilities.read_weather_byyear; fs is the file system at the time of the call
read_weather_byyear(year, fs) ==
    LET filepath == weather_filepath(year)
    IN  IF filepath \notin fs.files
        THEN [raised |-> "", table |-> <<>>, parsed |-> FALSE]
        ELSE [raised |-> "",
              table  |-> [i \in 1..Len(fs.content) |-> weather_row(fs.content[i], year)],
              parsed |-> TRUE]

\* the years asked for, and the years a file may exist for
WeatherYears == { 1800, 2000 }

WeatherFileYears == { 2000 }

\* a by_year directory: empty, or one year's file and the records in it
WeatherFileSystems ==
    { [files |-> {}, content |-> <<>>] } \cup
    { [files |-> {weather_filepath(y)}, content |-> rows] :
        y \in WeatherFileYears, rows \in ObsFiles(WeatherFileRows, MaxObsRows) }

---------------------------------------------------------------------------
(* Solar observations. *)

\* records a station's yearly member may hold (Date as written in the file)
SolarFileRows ==
    { [Date |-> d, Time_LST |-> t] :
        d \in { <<"1","9","6","3","-","0","1","-","0","2">>,
                <<"1","9","6","2","-","1","2","-","3","1">> },
        t \in { <<"1",":","0","0">>, <<"2","4",":","0","0">> } }

SolarStationIds == { Str(<<"S","1">>), Str(<<"S","9">>), PyInt7 }

SolarYears == { 1963, 1991 }

\* a solar directory: no archive, or the archive of station S1 with or without
\* its 1963 member, whose text read_csv can or cannot parse
SolarFileSystems ==
    { [archives |-> {}, members |-> {}, content |-> <<>>, wellformed |-> TRUE] } \cup
    { [archives |-> {solar_tarfilepath(Str(<<"S","1">>))}, members |-> m,
       content |-> rows, wellformed |-> w] :
        m \in SUBSET {solar_datfilepath(Str(<<"S","1">>), 1963)},
        rows \in ObsFiles(SolarFileRows, MaxObsRows),
        w \in BOOLEAN }

\* what read_solar_byyear makes of one record of the member
solar_row(r, stationid, year) ==
    LET date == to_datetime(r.Date)
    IN  [SolarStnId |-> stationid.val, Date |-> date, Time_LST |-> r.Time_LST,
         Year |-> year, Month |-> date.month, Day |-> date.day]

\* the locals of a read_solar_byyear call that has not started
NoCall == [stationid |-> PyNone, year |-> 0,
           fs |-> [archives |-> {}, members |-> {}, content |-> <<>>, wellformed |-> TRUE],
           df |-> <<>>, exc |-> "", parsed |-> FALSE, lookups |-> <<>>, opened |-> 0]

\* a slip: the handle is closed on the normal path only
with_exit_OnSuccessOnly(open, exc) == IF exc = "" THEN open - 1 ELSE open

\* leaving  with tarfile.open(...) as f:  closes f however the block ended
with_exit(open, exc) == open - 1

\* a slip: a missing member is not caught
extractfile_Uncaught(c) ==
    IF solar_datfilepath(c.stationid, c.year) \in c.fs.members
    THEN [c EXCEPT !.parsed = TRUE]
    ELSE [c EXCEPT !.exc = "KeyError"]

\* try: f.extractfile(datfilepath)  except: df = pd.DataFrame()
extractfile(c) ==
    IF solar_datfilepath(c.stationid, c.year) \in c.fs.members
    THEN [c EXCEPT !.parsed = TRUE]
    ELSE [c EXCEPT !.df = <<>>]

\* the else: branch: read_csv, to_datetime and the added columns
read_member(c) ==
    IF ~c.fs.wellformed
    THEN [c EXCEPT !.exc = "ParserError"]
    ELSE [c EXCEPT !.df = [i \in 1..Len(c.fs.content) |->
                              solar_row(c.fs.content[i], c.stationid, c.year)]]

---------------------------------------------------------------------------
(* save_dataframe. *)

\* str.format with positional {} fields
RECURSIVE str_format(_, _)
str_format(template, args) ==
    IF template = <<>> THEN <<>>
    ELSE IF Len(template) >= 2 /\ template[1] = "{" /\ template[2] = "}"
    THEN Head(args) \o str_format(SubSeq(template, 3, Len(template)), Tail(args))
    ELSE << template[1] >> \o str_format(Tail(template), args)

\* '-_(){}{}'.format(string.ascii_letters, string.digits)
validFilenameChars ==
    str_format(<<"-","_","(",")","{","}","{","}">>, <<ascii_letters, digits>>)

\* os.path.join(a, b)
path_join(a, b) ==
    IF b # <<>> /\ b[1] = "/" THEN b
    ELSE IF a = <<>> \/ a[Len(a)] = "/" THEN a \o b
    ELSE a \o <<"/">> \o b

\* a slip: blanks are kept
cleanName_KeepBlank(name) ==
    LET valid(c) == c \in Range(validFilenameChars) \cup {" "}
    IN  SelectSeq(name, valid)

\* ''.join(c for c in name if c in validFilenameChars)
cleanName(name) ==
    LET valid(c) == c \in Range(validFilenameChars)
    IN  SelectSeq(name, valid)

\* save_dataframe; ftime is the clock's strftime('%Y%m%dT%H%M%S') text
save_dataframe(dftype, name, savedir, makeunique, ftime) ==
    IF ~isinstance_str(name)
    THEN [returned |-> <<>>, written |-> {}]
    ELSE IF dftype # "DataFrame"
    THEN [returned |-> <<>>, written |-> {}]
    ELSE LET finalName ==
                 IF makeunique
                 THEN path_join(savedir, str_format(<<"{","}","_","{","}",".pqt">>,
                                                    <<ftime, cleanName(name.val)>>))
                 ELSE path_join(savedir, str_format(<<"{","}",".pqt">>,
                                                    <<cleanName(name.val)>>))
         IN  [returned |-> finalName, written |-> {finalName}]

SaveAlphabet == { "x", "7", "-", "_", "(", ")", "{", "}", " ", "?" }

SaveNames == { Str(s) : s \in StringsUpTo(SaveAlphabet, MaxSaveNameLen) } \cup { PyInt7 }

SaveDirs == { <<".","/">>, <<"o","u","t">> }

FTimes == { <<"20240131T235959">>, <<"20240201T000000">> }

---------------------------------------------------------------------------
(* Arguments the callers pass. *)

PatAlphabet == { "a", "A", "." }

RegionAlphabet == { "T", "t", "|", "1" }

StationArgs == { Str(s) : s \in StringsUpTo(PatAlphabet, MaxPatLen) } \cup { PyInt7 }

StateArgs ==
    { Str(s) : s \in StringsUpTo(RegionAlphabet, RegionLen + MaxRegionExtra) } \cup { PyInt7 }

SolarArgs == { PyTrue, PyFalse, Str(<<>>) }

Slice == [type |-> "slice", val |-> <<":">>]

StationKeys ==
    { Str(<<c, d>>) : c \in {"W", "S"}, d \in {"1", "2", "3", "4", "9"} }
        \cup { PyInt7, PyNone, Slice }

idcol == IF catalog = "weather" THEN "WeatherStnId" ELSE "SolarStnId"

\* the heap once the caller has let go of the table it held
NoFrames(fr) == [dfStations |-> fr.dfStations, indexed |-> <<>>, returned |-> <<>>]

---------------------------------------------------------------------------
(* The state after construction, and the calls.  pc is where the one thread  *)
(* of control is: "idle" before a call, "returned" when a call has ended    *)
(* and its outcome is in last, or inside read_solar_byyear.                 *)

Init ==
    /\ catalog \in { "weather", "solar", "none" }
    /\ loaded \in CASE catalog = "weather" -> StationFiles(WeatherStationRows)
                    [] catalog = "solar"   -> StationFiles(SolarStationRows)
                    [] OTHER               -> { <<>> }
    /\ frames = [dfStations |-> loaded, indexed |-> <<>>, returned |-> <<>>]
    /\ held = "none"
    /\ last = [op |-> "none"]
    /\ pc = "idle"
    /\ call = NoCall
    /\ handles = 0

\* what a find_stations call leaves behind: the caller holds the table returned
FindDone(station, state, solar, r) ==
    /\ last' = [op |-> "find_stations", station |-> station, state |-> state,
                solar |-> solar, raised |-> r.raised, table |-> r.df.val]
    /\ held' = r.df.ref
    /\ frames' = IF r.df.ref \in {"indexed", "returned"}
                 THEN [frames EXCEPT ![r.df.ref] = r.df.val]
                 ELSE frames
    /\ pc' = "returned"
    /\ UNCHANGED <<catalog, loaded, call, handles>>

FindStationsWeather ==
    /\ catalog = "weather" /\ pc = "idle"
    /\ \E station \in StationArgs, state \in StateArgs :
          FindDone(station, state, Str(<<>>),
                   GHCN_find_stations(frames.dfStations, station, state))

FindStationsSolar ==
    /\ catalog = "solar" /\ pc = "idle"
    /\ \E station \in StationArgs, state \in StateArgs, solar \in SolarArgs :
          FindDone(station, state, solar,
                   NSRB_find_stations(frames.dfStations, station, state, solar))

GetStationInfo ==
    /\ catalog \in {"weather", "solar"} /\ pc = "idle"
    /\ \E stationid \in StationKeys :
          LET sr == get_station_info(frames.dfStations, idcol, stationid)
          IN  last' = [op |-> "get_station_info", stationid |-> stationid,
                       kind |-> sr.kind, rows |-> sr.rows]
    /\ pc' = "returned"
    /\ UNCHANGED <<catalog, loaded, frames, held, call, handles>>

ReadWeatherByYear ==
    /\ catalog = "weather" /\ pc = "idle"
    /\ \E year \in WeatherYears, fs \in WeatherFileSystems :
          LET r == read_weather_byyear(year, fs)
          IN  last' = [op |-> "read_weather_byyear", year |-> year, fs |-> fs,
                       raised |-> r.raised, table |-> r.table, parsed |-> r.parsed]
    /\ pc' = "returned"
    /\ UNCHANGED <<catalog, loaded, frames, held, call, handles>>

\* how a read_solar_byyear call ends
SolarDone(c) ==
    /\ last' = [op |-> "read_solar_byyear", stationid |-> c.stationid, year |-> c.year,
                fs |-> c.fs, raised |-> c.exc, table |-> c.df, parsed |-> c.parsed,
                lookups |-> c.lookups, opened |-> c.opened]
    /\ pc' = "returned"
    /\ call' = NoCall

\* read_solar_byyear up to  with tarfile.open(tarfilepath, 'r:gz') as f:
ReadSolarBegin ==
    /\ catalog = "solar" /\ pc = "idle"
    /\ \E stationid \in SolarStationIds, year \in SolarYears, fs \in SolarFileSystems :
          LET c == [NoCall EXCEPT !.stationid = stationid, !.year = year, !.fs = fs]
          IN  IF ~isinstance_str(stationid)
              THEN /\ SolarDone([c EXCEPT !.exc = "ValueError: Station ID must be a string"])
                   /\ UNCHANGED handles
              ELSE IF solar_tarfilepath(stationid) \notin fs.archives
              THEN /\ SolarDone([c EXCEPT !.exc = "ValueError: File not found",
                                          !.lookups = <<solar_tarfilepath(stationid)>>])
                   /\ UNCHANGED handles
              ELSE /\ call' = [c EXCEPT !.lookups = <<solar_tarfilepath(stationid)>>,
                                        !.opened = 1]
                   /\ handles' = handles + 1
                   /\ pc' = "extractfile"
                   /\ UNCHANGED last
    /\ UNCHANGED <<catalog, loaded, frames, held>>

\* try: datfile = f.extractfile(datfilepath)
ReadSolarExtract ==
    /\ pc = "extractfile"
    /\ call' = extractfile(call)
    /\ pc' = IF call'.exc # "" THEN "with_exit"
             ELSE IF call'.parsed THEN "read_csv" ELSE "with_exit"
    /\ UNCHANGED <<catalog, loaded, frames, held, last, handles>>

\* else: df = pd.read_csv(datfile, ...) and the added columns
ReadSolarParse ==
    /\ pc = "read_csv"
    /\ call' = read_member(call)
    /\ pc' = "with_exit"
    /\ UNCHANGED <<catalog, loaded, frames, held, last, handles>>

\* the end of the with block, then  return df  or the pending exception
ReadSolarExit ==
    /\ pc = "with_exit"
    /\ handles' = with_exit(handles, call.exc)
    /\ SolarDone(call)
    /\ UNCHANGED <<catalog, loaded, frames, held>>

\* the caller changes the table a find_stations call returned to it
MutateReturned ==
    /\ pc = "returned"
    /\ held # "none"
    /\ \E i \in 1..Len(frames[held]) :
          \/ frames' = [frames EXCEPT ![held] = RowsAt(@, (1..Len(@)) \ {i})]
          \/ frames' = [frames EXCEPT ![held][i].StationName = <<"z">>]
    /\ last' = [op |-> "mutate",
                unfiltered |-> IF last.op = "find_stations"
                               THEN last.station.val = <<>> /\ last.state.val = <<>>
                                    /\ ~isinstance_bool(last.solar)
                               ELSE last.unfiltered]
    /\ UNCHANGED <<catalog, loaded, held, pc, call, handles>>

SaveDataframe ==
    /\ catalog = "none" /\ pc = "idle"
    /\ \E dftype \in {"DataFrame", "Series"}, name \in SaveNames, savedir \in SaveDirs,
          makeunique \in BOOLEAN, ftime \in FTimes :
          LET r == save_dataframe(dftype, name, savedir, makeunique, ftime)
          IN  last' = [op |-> "save_dataframe", dftype |-> dftype, name |-> name,
                       savedir |-> savedir, makeunique |-> makeunique, ftime |-> ftime,
                       returned |-> r.returned, written |-> r.written]
    /\ pc' = "returned"
    /\ UNCHANGED <<catalog, loaded, frames, held, call, handles>>

\* the caller is done with the outcome, lets go of the table it held, and goes on
CallerContinues ==
    /\ pc = "returned"
    /\ pc' = "idle"
    /\ last' = [op |-> "none"]
    /\ held' = "none"
    /\ frames' = NoFrames(frames)
    /\ UNCHANGED <<catalog, loaded, call, handles>>

Next ==
    \/ FindStationsWeather
    \/ FindStationsSolar
    \/ GetStationInfo
    \/ ReadWeatherByYear
    \/ ReadSolarBegin
    \/ ReadSolarExtract
    \/ ReadSolarParse
    \/ ReadSolarExit
    \/ MutateReturned
    \/ SaveDataframe
    \/ CallerContinues

Spec == Init /\ [][Next]_vars

---------------------------------------------------------------------------
(* What the claims speak of, said without the code's helpers. *)

IsLetter(c) == c \in Range(ascii_letters)

\* empty, or exactly two letters
IsRegionCode(v) ==
    /\ v.type = "str"
    /\ \/ v.val = <<>>
       \/ Len(v.val) = 2 /\ IsLetter(v.val[1]) /\ IsLetter(v.val[2])

SameIgnoringCase(a, b) ==
    /\ Len(a) = Len(b)
    /\ \A i \in 1..Len(a) : UpperChar(a[i]) = UpperChar(b[i])

HasSubstringIgnoringCase(x, p) ==
    \E k \in 0..(Len(x) - Len(p)) : SameIgnoringCase(SubSeq(x, k + 1, k + Len(p)), p)

NameOk(row, station) == station.val = <<>> \/ HasSubstringIgnoringCase(row.StationName, station.val)

RegionOk(row, state) == state.val = <<>> \/ SameIgnoringCase(row.State, state.val)

MeasuredOk(row, solar) == solar.type # "bool" \/ row.SolarFlag = (solar = PyTrue)

StateError == "ValueError: state must be a string two letters"

FindCall == pc = "returned" /\ last.op = "find_stations"

\* C1: find_stations accepts a regionCode only if it is empty or exactly two
\* letters; every other regionCode fails with the validation error and no table.
C1_RegionCodeValidated ==
    FindCall =>
        /\ IsRegionCode(last.state) => last.raised # StateError
        /\ ~IsRegionCode(last.state) => last.raised = StateError /\ last.table = <<>>

\* C2: solar find_stations, given a region code of letters, returns exactly the
\* rows that pass every filter supplied: name, region and measured-data flag.
C2_SolarFiltersConjoin ==
    (FindCall /\ catalog = "solar" /\ IsRegionCode(last.state) /\ last.station.type = "str") =>
        /\ last.raised = ""
        /\ last.table = RowsAt(loaded, { i \in 1..Len(loaded) :
                                            /\ NameOk(loaded[i], last.station)
                                            /\ RegionOk(loaded[i], last.state)
                                            /\ MeasuredOk(loaded[i], last.solar) })

\* C3: weather find_stations, for valid arguments, returns exactly the rows whose
\* name holds namePattern as a literal substring ignoring case and whose region
\* equals regionCode ignoring case; an empty argument filters nothing.
C3_WeatherFindExact ==
    (FindCall /\ catalog = "weather" /\ IsRegionCode(last.state) /\ last.station.type = "str") =>
        /\ last.raised = ""
        /\ last.table = RowsAt(loaded, { i \in 1..Len(loaded) :
                                            /\ NameOk(loaded[i], last.station)
                                            /\ RegionOk(loaded[i], last.state) })

\* a weather search by a pattern holding a dot and by a region code has kept
\* some rows and dropped others
C3_Witness ==
    /\ FindCall /\ catalog = "weather" /\ last.raised = ""
    /\ "." \in Range(last.station.val)
    /\ Len(last.state.val) = 2
    /\ last.table # <<>>
    /\ Len(last.table) < Len(loaded)

SolarCall == pc = "returned" /\ last.op = "read_solar_byyear"

ArchiveOf(id) == <<"SolarDir/">> \o id \o <<".tar.gz">>

MemberOf(id, year) ==
    <<"nsrdb_solar/">> \o id \o <<"/">> \o id \o <<"_">> \o FormatInt(year) \o <<".csv">>

\* C4: solar read_solar_byyear: a non-string stationId fails validation before
\* any file is looked up; else a missing archive fails as not found; else a
\* missing year member gives an empty table without raising; the member is
\* parsed only when it is present.
C4_SolarOutcomesInOrder ==
    SolarCall =>
        LET id      == last.stationid
            isStr   == id.type = "str"
            archive == isStr /\ ArchiveOf(id.val) \in last.fs.archives
            member  == archive /\ MemberOf(id.val, last.year) \in last.fs.members
        IN  /\ ~isStr => /\ last.raised = "ValueError: Station ID must be a string"
                         /\ last.lookups = <<>>
            /\ (isStr /\ ~archive) => last.raised = "ValueError: File not found"
            /\ (archive /\ ~member) => last.raised = "" /\ last.table = <<>>
            /\ last.parsed <=> member

\* a call found the archive but not the year's member and returned an empty table
C4_Witness ==
    /\ SolarCall
    /\ last.stationid.type = "str"
    /\ ArchiveOf(last.stationid.val) \in last.fs.archives
    /\ MemberOf(last.stationid.val, last.year) \notin last.fs.members
    /\ last.fs.members # {}
    /\ last.opened = 1
    /\ last.table = <<>>

ObsCall == pc = "returned" /\ last.op \in {"read_weather_byyear", "read_solar_byyear"}

\* C5: in every table the two readers return, each row's Year, Month and Day
\* are those of the row's parsed Date.
C5_DatePartsFromDate ==
    ObsCall =>
        \A i \in 1..Len(last.table) :
            /\ last.table[i].Year  = last.table[i].Date.year
            /\ last.table[i].Month = last.table[i].Date.month
            /\ last.table[i].Day   = last.table[i].Date.day

WeatherCall == pc = "returned" /\ last.op = "read_weather_byyear"

C7_SoftNotFound ==
    /\ (pc = "returned" /\ last.op = "get_station_info") =>
          LET hit == { i \in 1..Len(loaded) :
                          last.stationid.type = "str" /\ loaded[i][idcol] = last.stationid.val }
          IN  IF hit # {}
              THEN last.kind = "Series" /\ last.rows = RowsAt(loaded, hit)
              ELSE last.rows = <<>>
    /\ (WeatherCall /\ weather_filepath(last.year) \notin last.fs.files) =>
          last.raised = "" /\ last.table = <<>>

\* C8: the catalog's station table stays the table loaded at construction,
\* whatever calls are made and however the caller changes the tables returned.
C8_StationTableImmutable == frames.dfStations = loaded

\* the caller has changed the table an unfiltered find_stations returned
C8_Witness ==
    /\ pc = "returned" /\ last.op = "mutate" /\ last.unfiltered
    /\ held # "none"
    /\ loaded # <<>>
    /\ frames[held] # loaded

RECURSIVE Keep(_, _)
Keep(s, allowed) ==
    IF s = <<>> THEN <<>>
    ELSE (IF Head(s) \in allowed THEN <<Head(s)>> ELSE <<>>) \o Keep(Tail(s), allowed)

SaveCall ==
    /\ pc = "returned" /\ last.op = "save_dataframe"
    /\ last.name.type = "str" /\ last.dftype = "DataFrame"

\* savedir/<clean>.pqt, or savedir/<timestamp>_<clean>.pqt
SavePath(clean) ==
    (IF last.savedir[Len(last.savedir)] = "/" THEN last.savedir ELSE last.savedir \o <<"/">>)
        \o (IF last.makeunique THEN last.ftime \o <<"_">> ELSE <<>>)
        \o clean \o <<".pqt">>

C10_HandleClosed ==
    /\ pc \in {"idle", "returned"} => handles = 0
    /\ pc \in {"extractfile", "read_csv", "with_exit"} => handles = 1
    /\ (SolarCall /\ last.raised \in {"ValueError: Station ID must be a string",
                                      "ValueError: File not found"}) => last.opened = 0

\* a call that opened the archive and failed while parsing has returned
C10_Witness ==
    /\ SolarCall
    /\ last.raised = "ParserError"
    /\ last.opened = 1
    /\ handles = 0

====
